---------------------------- MODULE Spec2Model ----------------------------
(***************************************************************************)
(* Model of the ScriptHub native backend (src-tauri/src/lib.rs):           *)
(*   - get_github_credential: spawn `git credential fill`, write the       *)
(*     request to its stdin, wait for it, scan its stdout for a password   *)
(*     line;                                                               *)
(*   - get_github_env_token: GITHUB_TOKEN, then GH_TOKEN;                  *)
(*   - verify_github_token: one GET to api.github.com/user;                *)
(*   - minimize_window, quit_app and the tray icon / tray menu handlers.   *)
(*                                                                         *)
(* Text is a sequence of one-character strings.  Bytes of the helper's     *)
(* stdout are the same, plus the symbol "0xFF" for a byte that is not      *)
(* valid UTF-8.                                                            *)
(***************************************************************************)
EXTENDS Naturals, Sequences, FiniteSets

VARIABLES
    cred,       \* call id -> the locals of one get_github_credential call
    env,        \* the process environment: variable name -> its state
    envCall,    \* the locals of the get_github_env_token call
    verify,     \* call id -> the locals of one verify_github_token call
    window,     \* the main webview window
    app,        \* the application process: running, exit code
    lastEvent   \* the last tray / window event handled

vars == <<cred, env, envCall, verify, window, app, lastEvent>>

(***************************************************************************)
(* Bounds of the model.                                                    *)
(***************************************************************************)
\* The helper's stdout is a concatenation of at most MaxChunks chunks.
MaxChunks == 5

(***************************************************************************)
(* Text helpers: the std functions the credential scan calls.              *)
(***************************************************************************)
\* The literal "password=" (lines 45 and 46).
PasswordPrefix == <<"p", "a", "s", "s", "w", "o", "r", "d", "=">>

\* The literal written to the helper's stdin (line 35).
StdinPayload == "protocol=https\nhost=github.com\n\n"

\* String::from_utf8_lossy: every invalid byte becomes U+FFFD.
FromUtf8Lossy(bytes) ==
    [i \in 1..Len(bytes) |-> IF bytes[i] = "0xFF" THEN "U+FFFD" ELSE bytes[i]]

\* str::starts_with.
StartsWith(s, pat) ==
    /\ Len(s) >= Len(pat)
    /\ SubSeq(s, 1, Len(pat)) = pat

\* str::trim_start_matches: strips the prefix as many times as it repeats.
RECURSIVE TrimStartMatches(_, _)
TrimStartMatches(s, pat) ==
    IF pat # <<>> /\ StartsWith(s, pat)
    THEN TrimStartMatches(SubSeq(s, Len(pat) + 1, Len(s)), pat)
    ELSE s

\* The rest of str::lines for one piece that ended in "\n": one trailing
\* "\r" is removed with it.
StripCarriageReturn(l) ==
    IF l # <<>> /\ l[Len(l)] = "\r" THEN SubSeq(l, 1, Len(l) - 1) ELSE l

\* str::lines: the pieces between "\n"; a piece that ends the text without
\* "\n" is kept as it is, and an empty one is no line.
RECURSIVE LinesFrom(_, _)
LinesFrom(s, cur) ==
    IF s = <<>>
    THEN IF cur = <<>> THEN <<>> ELSE <<cur>>
    ELSE IF Head(s) = "\n"
         THEN <<StripCarriageReturn(cur)>> \o LinesFrom(Tail(s), <<>>)
         ELSE LinesFrom(Tail(s), Append(cur, Head(s)))

Lines(s) == LinesFrom(s, <<>>)

(***************************************************************************)
(* get_github_credential                                                   *)
(***************************************************************************)
\* Result<Option<String>, String>.
Pending == [tag |-> "Pending", token |-> <<>>, msg |-> <<>>]
OkSome(t) == [tag |-> "OkSome", token |-> t, msg |-> <<>>]
OkNone == [tag |-> "OkNone", token |-> <<>>, msg |-> <<>>]
ErrMsg(m) == [tag |-> "Err", token |-> <<>>, msg |-> m]

\* io::Result<Output> of spawn().and_then(..wait_with_output()).
NoOutput == [tag |-> "None", err |-> "", success |-> FALSE, stdout |-> <<>>]
OutputOk(success, stdout) ==
    [tag |-> "Ok", err |-> "", success |-> success, stdout |-> stdout]
OutputErr(e) == [tag |-> "Err", err |-> e, success |-> FALSE, stdout |-> <<>>]

\* The io errors spawn() and wait() can fail with.
IoErrors == {"NotFound", "PermissionDenied"}

\* The locals of a call that has not started.
CredIdle ==
    [pc |-> "idle", spawns |-> 0, children |-> 0, log |-> <<>>,
     stdinWrites |-> <<>>, writeOk |-> FALSE, spawned |-> "no",
     waited |-> "no", output |-> NoOutput, result |-> Pending]

\* The token of one line: line 46.
LineToken(line) == TrimStartMatches(line, PasswordPrefix)

\* A faulty scan: the last password line with a token wins.
RECURSIVE ScanLinesLastWins(_)
ScanLinesLastWins(lines) ==
    IF lines = <<>>
    THEN OkNone
    ELSE LET rest == ScanLinesLastWins(Tail(lines))
         IN  IF rest.tag = "OkSome"
             THEN rest
             ELSE IF StartsWith(Head(lines), PasswordPrefix)
                     /\ LineToken(Head(lines)) # <<>>
                  THEN OkSome(LineToken(Head(lines)))
                  ELSE OkNone

\* A faulty scan: the first password line wins even with an empty token
\* (the is_empty test of line 47 left out).
RECURSIVE ScanLinesKeepEmpty(_)
ScanLinesKeepEmpty(lines) ==
    IF lines = <<>>
    THEN OkNone
    ELSE IF StartsWith(Head(lines), PasswordPrefix)
         THEN IF LineToken(Head(lines)) # <<>>
              THEN OkSome(LineToken(Head(lines)))
              ELSE [tag |-> "OkSome", token |-> <<>>, msg |-> <<>>]
         ELSE ScanLinesKeepEmpty(Tail(lines))

\* The loop of lines 44-51 over the lines still to scan: the first line
\* that starts with "password=" and has a non-empty token is returned.
RECURSIVE ScanLines(_)
ScanLines(lines) ==
    IF lines = <<>>
    THEN OkNone
    ELSE IF StartsWith(Head(lines), PasswordPrefix)
         THEN IF LineToken(Head(lines)) # <<>>
              THEN OkSome(LineToken(Head(lines)))
              ELSE ScanLines(Tail(lines))
         ELSE ScanLines(Tail(lines))

\* A faulty match: the exit status (line 42) is not looked at.
MatchOutputAnyStatus(output) ==
    IF output.tag = "Ok"
    THEN ScanLines(Lines(FromUtf8Lossy(output.stdout)))
    ELSE ErrMsg(<<"Failed to execute git credential: ", output.err>>)

\* The match of lines 40-60.
MatchOutput(output) ==
    IF output.tag = "Ok"
    THEN IF output.success
         THEN ScanLines(Lines(FromUtf8Lossy(output.stdout)))
         ELSE OkNone
    ELSE ErrMsg(<<"Failed to execute git credential: ", output.err>>)

\* A faulty lookup: one output kept for all calls.
CredOutputShared(c) == cred[CHOOSE d \in DOMAIN cred : TRUE].output

\* The output a call matches on: its own local `output` (line 31).

CredOutputOf(c) == cred[c].output

\* The frontend invokes the command: Command::new("git") .. (lines 22-29).
CredInvoke(c) ==
    /\ cred[c].pc = "idle"
    /\ cred' = [cred EXCEPT ![c] = [CredIdle EXCEPT !.pc = "spawn"]]
    /\ UNCHANGED <<env, envCall, verify, window, app, lastEvent>>

\* A faulty step: a failed spawn() is tried again.
AfterSpawnFailureRetry == "spawn"

\* What a failed spawn() goes on to: and_then skips the closure and the
\* error reaches the match.

AfterSpawnFailure == "match"

\* cmd.spawn() (line 31).
CredSpawn(c) ==
    /\ cred[c].pc = "spawn"
    /\ \/ cred' = [cred EXCEPT ![c].spawns = @ + 1,
                               ![c].children = @ + 1,
                               ![c].log = Append(@, "spawn"),
                               ![c].spawned = "ok",
                               ![c].pc = "write"]
       \/ \E e \in IoErrors :
            cred' = [cred EXCEPT ![c].spawns = @ + 1,
                                 ![c].log = Append(@, "spawn"),
                                 ![c].spawned = "fail",
                                 ![c].output = OutputErr(e),
                                 ![c].pc = AfterSpawnFailure]
    /\ UNCHANGED <<env, envCall, verify, window, app, lastEvent>>

\* stdin.write_all(..).ok() (lines 34-36): the outcome is dropped.
CredWriteStdin(c) ==
    /\ cred[c].pc = "write"
    /\ \E ok \in BOOLEAN :
         cred' = [cred EXCEPT ![c].log = Append(@, "write_all"),
                              ![c].stdinWrites = Append(@, StdinPayload),
                              ![c].writeOk = ok,
                              ![c].pc = "wait"]
    /\ UNCHANGED <<env, envCall, verify, window, app, lastEvent>>

\* The steps of child.wait_with_output(): stdin is dropped, the pipes are
\* read to their end, the child is waited for.
WaitSteps == <<"close_stdin", "read_output", "wait">>

\* child.wait_with_output() (line 37); the helper's exit status and stdout
\* are its own, drawn from Outs.
CredWaitWithOutput(c, Outs) ==
    /\ cred[c].pc = "wait"
    /\ \/ \E success \in BOOLEAN, out \in Outs :
            cred' = [cred EXCEPT ![c].log = @ \o WaitSteps,
                                 ![c].waited = "ok",
                                 ![c].output = OutputOk(success, out),
                                 ![c].pc = "match"]
       \/ \E e \in IoErrors :
            cred' = [cred EXCEPT ![c].log = @ \o WaitSteps,
                                 ![c].waited = "fail",
                                 ![c].output = OutputErr(e),
                                 ![c].pc = "match"]
    /\ UNCHANGED <<env, envCall, verify, window, app, lastEvent>>

\* match output { .. } (lines 40-60).
CredMatch(c) ==
    /\ cred[c].pc = "match"
    /\ cred' = [cred EXCEPT ![c].result = MatchOutput(CredOutputOf(c)),
                            ![c].pc = "done"]
    /\ UNCHANGED <<env, envCall, verify, window, app, lastEvent>>

\* The result goes to the frontend and the locals are dropped.
CredReturn(c) ==
    /\ cred[c].pc = "done"
    /\ cred' = [cred EXCEPT ![c] = CredIdle]
    /\ UNCHANGED <<env, envCall, verify, window, app, lastEvent>>

(***************************************************************************)
(* get_github_env_token                                                    *)
(***************************************************************************)
\* Option<String>.
NoneYet == [tag |-> "Pending", val |-> <<>>]
SomeVal(v) == [tag |-> "Some", val |-> v]
NoneVal == [tag |-> "None", val |-> <<>>]

EnvIdle == [pc |-> "idle", result |-> NoneYet]

\* The values a set variable can hold.
EnvValues == {<<>>, <<"a">>, <<"b">>}

\* A variable is unset, set to something that is not Unicode, or set.
EnvStates ==
    {[st |-> "unset", val |-> <<>>], [st |-> "not_unicode", val |-> <<>>]}
        \cup {[st |-> "set", val |-> v] : v \in EnvValues}

\* env::var(name).ok(): the value of a variable that is set and valid
\* Unicode, the empty value included, and nothing otherwise.
EnvVarOk(name) ==
    IF env[name].st = "set" THEN SomeVal(env[name].val) ELSE NoneVal

EnvInvoke ==
    /\ envCall.pc = "idle"
    /\ envCall' = [pc |-> "primary", result |-> NoneYet]
    /\ UNCHANGED <<cred, env, verify, window, app, lastEvent>>

\* env::var("GITHUB_TOKEN").ok() (line 66); or_else runs only on None.
EnvReadPrimary ==
    /\ envCall.pc = "primary"
    /\ envCall' = IF EnvVarOk("GITHUB_TOKEN").tag = "Some"
                  THEN [pc |-> "done", result |-> EnvVarOk("GITHUB_TOKEN")]
                  ELSE [pc |-> "fallback", result |-> NoneYet]
    /\ UNCHANGED <<cred, env, verify, window, app, lastEvent>>

\* .or_else(|| env::var("GH_TOKEN").ok()) (line 67).
EnvReadFallback ==
    /\ envCall.pc = "fallback"
    /\ envCall' = [pc |-> "done", result |-> EnvVarOk("GH_TOKEN")]
    /\ UNCHANGED <<cred, env, verify, window, app, lastEvent>>

EnvReturn ==
    /\ envCall.pc = "done"
    /\ envCall' = EnvIdle
    /\ UNCHANGED <<cred, env, verify, window, app, lastEvent>>

(***************************************************************************)
(* verify_github_token                                                     *)
(***************************************************************************)
\* Result<bool, String>.
VerifyPending == [tag |-> "Pending", val |-> FALSE, msg |-> ""]
VerifyOk(b) == [tag |-> "Ok", val |-> b, msg |-> ""]
VerifyErr(m) == [tag |-> "Err", val |-> FALSE, msg |-> m]

\* What send().await ends with: a response with a status, or a transport
\* error.
NoResponse == [tag |-> "None", status |-> 0, err |-> ""]
Response(s) == [tag |-> "Response", status |-> s, err |-> ""]
TransportError(e) == [tag |-> "TransportError", status |-> 0, err |-> e]

VerifyIdle ==
    [pc |-> "idle", token |-> <<>>, requests |-> <<>>,
     outcome |-> NoResponse, result |-> VerifyPending]

\* The tokens the frontend passes.
VerifyTokens == {<<>>, <<"a">>}

StatusCodes == {100, 199, 200, 204, 299, 300, 304, 401, 404, 500}
TransportErrors == {"dns error", "timed out"}
Outcomes ==
    {Response(s) : s \in StatusCodes} \cup {TransportError(e) : e \in TransportErrors}

\* A faulty test: only 200 counts as success.
IsSuccessOnly200(status) == status = 200

\* StatusCode::is_success (line 82).
IsSuccess(status) == status >= 200 /\ status < 300

\* The request of lines 74-78.
Request(token) ==
    [method |-> "GET", url |-> "https://api.github.com/user",
     authorization |-> <<"Bearer ", token>>, userAgent |-> "ScriptHub-App"]

\* The frontend invokes the command; the request is sent and the call
\* suspends at .await (lines 73-79).
VerifyInvoke(v, Tokens) ==
    /\ verify[v].pc = "idle"
    /\ \E t \in Tokens :
         verify' = [verify EXCEPT ![v] =
                      [VerifyIdle EXCEPT !.pc = "await", !.token = t,
                                         !.requests = <<Request(t)>>]]
    /\ UNCHANGED <<cred, env, envCall, window, app, lastEvent>>

\* The call resumes: map_err(..)? and Ok(response.status().is_success())
\* (lines 80-82).
VerifyResume(v, Outs) ==
    /\ verify[v].pc = "await"
    /\ \E o \in Outs :
         verify' = [verify EXCEPT
                      ![v].outcome = o,
                      ![v].result = IF o.tag = "TransportError"
                                    THEN VerifyErr(o.err)
                                    ELSE VerifyOk(IsSuccess(o.status)),
                      ![v].pc = "done"]
    /\ UNCHANGED <<cred, env, envCall, window, app, lastEvent>>

VerifyReturn(v) ==
    /\ verify[v].pc = "done"
    /\ verify' = [verify EXCEPT ![v] = VerifyIdle]
    /\ UNCHANGED <<cred, env, envCall, window, app, lastEvent>>

(***************************************************************************)
(* The main window, the tray icon and its menu                             *)
(***************************************************************************)
WindowShown == [visible |-> TRUE, minimized |-> FALSE, focused |-> TRUE]

\* window.show(), window.unminimize(), window.set_focus().
Show(w) == [w EXCEPT !.visible = TRUE]
Unminimize(w) == [w EXCEPT !.minimized = FALSE]
SetFocus(w) == [w EXCEPT !.focused = TRUE]

\* The effect of a left click on the tray icon (lines 130-134).
LeftClickEffect(w) == SetFocus(Unminimize(Show(w)))

\* The effect of the "show" menu entry (lines 140-143).
MenuShowEffect(w) == SetFocus(Show(w))

Running == app.running

\* on_tray_icon_event (lines 127-136): only a left click does anything.
TrayIconEvent ==
    /\ Running
    /\ \E button \in {"Left", "Right", "Middle"} :
         /\ window' = IF button = "Left" THEN LeftClickEffect(window) ELSE window
         /\ lastEvent' = <<"tray_click", button>>
    /\ UNCHANGED <<cred, env, envCall, verify, app>>

\* on_menu_event (lines 137-150).
MenuEvent ==
    /\ Running
    /\ \E id \in {"show", "quit", "other"} :
         /\ window' = IF id = "show" THEN MenuShowEffect(window) ELSE window
         /\ app' = IF id = "quit" THEN [running |-> FALSE, exitCode |-> 0] ELSE app
         /\ lastEvent' = <<"menu", id>>
    /\ UNCHANGED <<cred, env, envCall, verify>>

\* minimize_window (lines 86-89): window.hide().
MinimizeWindow ==
    /\ Running
    /\ window' = [window EXCEPT !.visible = FALSE, !.focused = FALSE]
    /\ lastEvent' = <<"command", "minimize_window">>
    /\ UNCHANGED <<cred, env, envCall, verify, app>>

\* quit_app (lines 91-94): app_handle.exit(0).
QuitApp ==
    /\ Running
    /\ app' = [running |-> FALSE, exitCode |-> 0]
    /\ lastEvent' = <<"command", "quit_app">>
    /\ UNCHANGED <<cred, env, envCall, verify, window>>

\* The user minimizes the window from its title bar.
UserMinimize ==
    /\ Running
    /\ window.visible /\ ~window.minimized
    /\ window' = [window EXCEPT !.minimized = TRUE, !.focused = FALSE]
    /\ lastEvent' = <<"user", "minimize">>
    /\ UNCHANGED <<cred, env, envCall, verify, app>>

\* Another application takes the focus.
UserBlur ==
    /\ Running
    /\ window.focused
    /\ window' = [window EXCEPT !.focused = FALSE]
    /\ lastEvent' = <<"user", "blur">>
    /\ UNCHANGED <<cred, env, envCall, verify, app>>

(***************************************************************************)
(* Specifications                                                          *)
(***************************************************************************)
\* The chunks the helper's stdout is made of.
Chunks == {PasswordPrefix, <<"x">>, <<"\n">>, <<"\r">>, <<"0xFF">>}

RECURSIVE ChunkTexts(_)
ChunkTexts(n) ==
    IF n = 0
    THEN {<<>>}
    ELSE LET prev == ChunkTexts(n - 1)
         IN  prev \cup {p \o ch : p \in prev, ch \in Chunks}

\* Every stdout of at most MaxChunks chunks.
Stdouts == ChunkTexts(MaxChunks)

\* The stdouts of the helper when calls run side by side.
FewStdouts == {<<>>, PasswordPrefix \o <<"x">>, PasswordPrefix \o <<"y">>}

FewOutcomes == {Response(200), Response(401), TransportError("timed out")}

NoCalls == [c \in {} |-> CredIdle]

InitRest ==
    /\ window = WindowShown
    /\ app = [running |-> TRUE, exitCode |-> 0]
    /\ lastEvent = <<"none", "none">>

\* One get_github_credential call at a time, over every bounded stdout.
InitCred ==
    /\ cred = [c \in {"c1"} |-> CredIdle]
    /\ env = [n \in {"GITHUB_TOKEN", "GH_TOKEN"} |-> [st |-> "unset", val |-> <<>>]]
    /\ envCall = EnvIdle
    /\ verify = NoCalls
    /\ InitRest

NextCred ==
    \/ \E c \in DOMAIN cred : CredInvoke(c)
    \/ \E c \in DOMAIN cred : CredSpawn(c)
    \/ \E c \in DOMAIN cred : CredWriteStdin(c)
    \/ \E c \in DOMAIN cred : CredWaitWithOutput(c, Stdouts)
    \/ \E c \in DOMAIN cred : CredMatch(c)
    \/ \E c \in DOMAIN cred : CredReturn(c)

SpecCred == InitCred /\ [][NextCred]_vars

\* The environment lookup, the token verification and the tray, over every
\* state of the two variables.
InitShell ==
    /\ cred = NoCalls
    /\ env \in [{"GITHUB_TOKEN", "GH_TOKEN"} -> EnvStates]
    /\ envCall = EnvIdle
    /\ verify = [v \in {"v1"} |-> VerifyIdle]
    /\ InitRest

NextShell ==
    \/ EnvInvoke
    \/ EnvReadPrimary
    \/ EnvReadFallback
    \/ EnvReturn
    \/ \E v \in DOMAIN verify : VerifyInvoke(v, VerifyTokens)
    \/ \E v \in DOMAIN verify : VerifyResume(v, Outcomes)
    \/ \E v \in DOMAIN verify : VerifyReturn(v)
    \/ TrayIconEvent
    \/ MenuEvent
    \/ MinimizeWindow
    \/ QuitApp
    \/ UserMinimize
    \/ UserBlur

SpecShell == InitShell /\ [][NextShell]_vars

\* The commands dispatched side by side: two credential calls, the
\* environment lookup and two verifications, in any interleaving.
Init ==
    /\ cred = [c \in {"c1", "c2"} |-> CredIdle]
    /\ env \in [{"GITHUB_TOKEN", "GH_TOKEN"} ->
                  {[st |-> "unset", val |-> <<>>], [st |-> "set", val |-> <<"a">>]}]
    /\ envCall = EnvIdle
    /\ verify = [v \in {"v1", "v2"} |-> VerifyIdle]
    /\ InitRest

Next ==
    \/ \E c \in DOMAIN cred : CredInvoke(c)
    \/ \E c \in DOMAIN cred : CredSpawn(c)
    \/ \E c \in DOMAIN cred : CredWriteStdin(c)
    \/ \E c \in DOMAIN cred : CredWaitWithOutput(c, FewStdouts)
    \/ \E c \in DOMAIN cred : CredMatch(c)
    \/ \E c \in DOMAIN cred : CredReturn(c)
    \/ EnvInvoke
    \/ EnvReadPrimary
    \/ EnvReadFallback
    \/ EnvReturn
    \/ \E v \in DOMAIN verify : VerifyInvoke(v, {<<"a">>})
    \/ \E v \in DOMAIN verify : VerifyResume(v, FewOutcomes)
    \/ \E v \in DOMAIN verify : VerifyReturn(v)

Spec == Init /\ [][Next]_vars

(***************************************************************************)
(* Properties                                                              *)
(***************************************************************************)
Min(S) == CHOOSE i \in S : \A j \in S : i <= j

CredDone(c) == cred[c].pc = "done"

\* The call is done and its helper was waited for and exited successfully.
Succeeded(c) ==
    /\ CredDone(c)
    /\ cred[c].output.tag = "Ok"
    /\ cred[c].output.success

\* The lines of the helper's stdout, as text.
StdoutLines(c) == Lines(FromUtf8Lossy(cred[c].output.stdout))

IsPasswordLine(line) == StartsWith(line, PasswordPrefix)

\* The remainder of a password line after its first "password=".
Remainder(line) == SubSeq(line, Len(PasswordPrefix) + 1, Len(line))

\* The password lines of a text, those with a non-empty remainder, and
\* those the scan takes a non-empty token from.
PasswordLines(ls) == {i \in 1..Len(ls) : IsPasswordLine(ls[i])}
ValuedLines(ls) == {i \in PasswordLines(ls) : Remainder(ls[i]) # <<>>}
YieldingLines(ls) == {i \in PasswordLines(ls) : LineToken(ls[i]) # <<>>}

\* C1: after a successful helper run whose stdout has a line password=X
\* with X non-empty, the result is Some(X), X being all of that line after
\* its first "password=" (the first such line, if there are several).
C1_RemainderReturned ==
    \A c \in DOMAIN cred :
        Succeeded(c) =>
            LET ls == StdoutLines(c)
            IN  ValuedLines(ls) # {} =>
                    cred[c].result = OkSome(Remainder(ls[Min(ValuedLines(ls))]))

\* C2 as stated: the first password line alone decides the result; no
\* line after it changes the result.
C2_FirstPasswordLineDecides ==
    \A c \in DOMAIN cred :
        Succeeded(c) =>
            LET ls == StdoutLines(c)
            IN  PasswordLines(ls) # {} =>
                    cred[c].result = ScanLines(<<ls[Min(PasswordLines(ls))]>>)

\* C2 amended: the scan stops at the first password line it takes a
\* non-empty token from.  The result is that token, whatever follows the
\* line, and None when there is no such line; a password line with an
\* empty token does not stop the scan.
C2_FirstYieldingLineDecides ==
    \A c \in DOMAIN cred :
        Succeeded(c) =>
            LET ls == StdoutLines(c)
                Y == YieldingLines(ls)
            IN  IF Y = {}
                THEN cred[c].result = OkNone
                ELSE /\ cred[c].result = OkSome(LineToken(ls[Min(Y)]))
                     /\ \A k \in Min(Y)..Len(ls) :
                            ScanLines(SubSeq(ls, 1, k)) = cred[c].result

\* C2 witness: two lines yield different tokens, and one password line
\* before them has an empty value.
C2_Witness ==
    \E c \in DOMAIN cred :
        /\ Succeeded(c)
        /\ LET ls == StdoutLines(c)
               Y == YieldingLines(ls)
           IN  /\ \E i \in Y, j \in Y : LineToken(ls[i]) # LineToken(ls[j])
               /\ cred[c].result.tag = "OkSome"

\* C2 witness of the amended case: an empty password line came first and
\* the scan went on to a later one.
C2_WitnessSkipsEmpty ==
    \E c \in DOMAIN cred :
        /\ Succeeded(c)
        /\ LET ls == StdoutLines(c)
           IN  /\ PasswordLines(ls) # {}
               /\ Remainder(ls[Min(PasswordLines(ls))]) = <<>>
               /\ cred[c].result.tag = "OkSome"

\* C5: the call ends in an error exactly when spawn() or the wait failed,
\* and the error carries that cause; a helper that exits with a failure
\* status gives None whatever it printed; a failed write to stdin alone
\* gives no error.
C5_ErrorIffSpawnOrWaitFailed ==
    \A c \in DOMAIN cred :
        CredDone(c) =>
            /\ cred[c].result.tag \in {"OkSome", "OkNone", "Err"}
            /\ cred[c].result.tag = "Err"
                   <=> (cred[c].spawned = "fail" \/ cred[c].waited = "fail")
            /\ cred[c].result.tag = "Err" =>
                   /\ cred[c].output.err \in IoErrors
                   /\ cred[c].result.msg =
                          <<"Failed to execute git credential: ", cred[c].output.err>>
            /\ (cred[c].waited = "ok" /\ ~cred[c].output.success) =>
                   cred[c].result = OkNone

\* C5 witness: the helper printed a password line with a value, exited
\* with a failure status after a failed write to its stdin, and the result
\* is None.
C5_Witness ==
    \E c \in DOMAIN cred :
        /\ CredDone(c)
        /\ cred[c].waited = "ok"
        /\ ~cred[c].output.success
        /\ ~cred[c].writeOk
        /\ YieldingLines(StdoutLines(c)) # {}
        /\ cred[c].result = OkNone

\* C6 as stated: after a successful run with no password line, or whose
\* password line has an empty value, the result is None.
C6_EmptyFirstValueGivesNone ==
    \A c \in DOMAIN cred :
        Succeeded(c) =>
            LET ls == StdoutLines(c)
            IN  (PasswordLines(ls) = {}
                    \/ Remainder(ls[Min(PasswordLines(ls))]) = <<>>)
                => cred[c].result = OkNone

\* C6 amended: after a successful run with no password line, or in which
\* every password line has an empty value, the result is None.
C6_AllValuesEmptyGivesNone ==
    \A c \in DOMAIN cred :
        Succeeded(c) =>
            LET ls == StdoutLines(c)
            IN  (\A i \in PasswordLines(ls) : Remainder(ls[i]) = <<>>)
                => cred[c].result = OkNone

\* C6 witness: a successful run with password lines, all of them empty.
C6_Witness ==
    \E c \in DOMAIN cred :
        /\ Succeeded(c)
        /\ PasswordLines(StdoutLines(c)) # {}
        /\ \A i \in PasswordLines(StdoutLines(c)) :
               Remainder(StdoutLines(c)[i]) = <<>>
        /\ cred[c].result = OkNone

\* The order of a whole call.
FullLog == <<"spawn", "write_all", "close_stdin", "read_output", "wait">>

IsPrefix(s, t) == Len(s) <= Len(t) /\ s = SubSeq(t, 1, Len(s))

\* C9: a call calls spawn() once and has at most one child; it writes
\* "protocol=https\nhost=github.com\n\n" to the child's stdin once, then
\* closes stdin, reads the output and waits, in this order; the result is
\* computed after the wait (or after spawn() failed), a value only from a
\* child that was waited for; and no path spawns again.
C9_ProtocolOrder ==
    \A c \in DOMAIN cred :
        /\ cred[c].spawns <= 1
        /\ cred[c].children <= cred[c].spawns
        /\ IsPrefix(cred[c].log, FullLog)
        /\ cred[c].stdinWrites =
               IF Len(cred[c].log) >= 2
               THEN <<"protocol=https\nhost=github.com\n\n">>
               ELSE <<>>
        /\ cred[c].pc \in {"match", "done"} =>
               /\ cred[c].spawns = 1
               /\ \/ cred[c].spawned = "fail" /\ cred[c].children = 0
                       /\ cred[c].log = <<"spawn">>
                  \/ cred[c].spawned = "ok" /\ cred[c].children = 1
                       /\ cred[c].log = FullLog
        /\ cred[c].result # Pending => cred[c].pc = "done"
        /\ cred[c].result.tag \in {"OkSome", "OkNone"} => cred[c].waited = "ok"

\* C9 witness: a call that went through every step and returned a token.
C9_Witness ==
    \E c \in DOMAIN cred :
        /\ CredDone(c)
        /\ cred[c].log = FullLog
        /\ cred[c].children = 1
        /\ cred[c].result.tag = "OkSome"

EnvDone == envCall.pc = "done"

\* C3: the result is GITHUB_TOKEN's value when it is set and non-empty;
\* GH_TOKEN's value when GITHUB_TOKEN is unset or empty and GH_TOKEN is
\* set; None when neither is set (over unset, empty and non-empty).
C3_PrimaryThenFallback ==
    (EnvDone /\ \A n \in DOMAIN env : env[n].st \in {"unset", "set"}) =>
        LET p == env["GITHUB_TOKEN"]
            f == env["GH_TOKEN"]
        IN  envCall.result =
                IF p.st = "set" /\ p.val # <<>>
                THEN SomeVal(p.val)
                ELSE IF f.st = "set" THEN SomeVal(f.val) ELSE NoneVal

\* C4: a token that either lookup returns as present is not empty.
C4_PresentTokenNonEmpty ==
    /\ \A c \in DOMAIN cred :
           cred[c].result.tag = "OkSome" => cred[c].result.token # <<>>
    /\ envCall.result.tag = "Some" => envCall.result.val # <<>>

VerifyDone(v) == verify[v].pc = "done"

\* C7: a call sends one request, the GET with the token as bearer; it
\* returns true exactly for a status from 200 to 299, false for any other
\* status, and an error with the transport's message exactly when the
\* transport failed; nothing is sent again.
C7_VerifyOutcome ==
    \A v \in DOMAIN verify :
        /\ Len(verify[v].requests) <= 1
        /\ VerifyDone(v) =>
               /\ verify[v].requests =
                      <<[method |-> "GET", url |-> "https://api.github.com/user",
                         authorization |-> <<"Bearer ", verify[v].token>>,
                         userAgent |-> "ScriptHub-App"]>>
               /\ verify[v].outcome.tag \in {"Response", "TransportError"}
               /\ verify[v].outcome.tag = "Response" =>
                      verify[v].result =
                          VerifyOk(verify[v].outcome.status \in 200..299)
               /\ verify[v].outcome.tag = "TransportError" =>
                      verify[v].result = VerifyErr(verify[v].outcome.err)

\* C7 witness: a success status other than 200 gave true.
C7_Witness ==
    \E v \in DOMAIN verify :
        /\ VerifyDone(v)
        /\ verify[v].outcome = Response(204)
        /\ verify[v].result = VerifyOk(TRUE)

\* C8: after the "show" menu entry, as after a left click on the tray
\* icon, the main window is shown, not minimized and focused.
C8_ShowSameAsLeftClick ==
    lastEvent \in {<<"tray_click", "Left">>, <<"menu", "show">>} =>
        window = WindowShown

\* What each call's result is, from its own inputs alone.
ExpectedCred(output) ==
    IF output.tag = "Err"
    THEN ErrMsg(<<"Failed to execute git credential: ", output.err>>)
    ELSE LET ls == Lines(FromUtf8Lossy(output.stdout))
             Y == YieldingLines(ls)
         IN  IF output.success /\ Y # {}
             THEN OkSome(LineToken(ls[Min(Y)]))
             ELSE OkNone

ExpectedEnv ==
    IF env["GITHUB_TOKEN"].st = "set"
    THEN SomeVal(env["GITHUB_TOKEN"].val)
    ELSE IF env["GH_TOKEN"].st = "set"
         THEN SomeVal(env["GH_TOKEN"].val)
         ELSE NoneVal

ExpectedVerify(outcome) ==
    IF outcome.tag = "TransportError"
    THEN VerifyErr(outcome.err)
    ELSE VerifyOk(outcome.status \in 200..299)

\* C10: in every interleaving of the calls, the result of each finished
\* call is the one its own inputs give (its helper's exit and output, the
\* environment, its own response), whatever the other calls did, and a
\* call that has not finished holds no result of an earlier one.
C10_CallsIndependent ==
    /\ \A c \in DOMAIN cred :
           /\ CredDone(c) => cred[c].result = ExpectedCred(cred[c].output)
           /\ ~CredDone(c) => cred[c].result = Pending
           /\ cred[c].pc \in {"idle", "spawn", "write"} => cred[c].output = NoOutput
    /\ EnvDone => envCall.result = ExpectedEnv
    /\ ~EnvDone => envCall.result = NoneYet
    /\ \A v \in DOMAIN verify :
           /\ VerifyDone(v) => verify[v].result = ExpectedVerify(verify[v].outcome)
           /\ ~VerifyDone(v) =>
                  verify[v].result = VerifyPending /\ verify[v].outcome = NoResponse

\* C10 witness: calls of each kind have finished side by side with
\* different results.
C10_Witness ==
    /\ \E c \in DOMAIN cred, d \in DOMAIN cred :
           /\ CredDone(c) /\ CredDone(d)
           /\ cred[c].result.tag = "OkSome" /\ cred[d].result.tag = "OkSome"
           /\ cred[c].result # cred[d].result
    /\ \E v \in DOMAIN verify, w \in DOMAIN verify :
           /\ VerifyDone(v) /\ VerifyDone(w)
           /\ verify[v].result = VerifyOk(TRUE)
           /\ verify[w].result = VerifyOk(FALSE)
    /\ EnvDone

====
